---- MODULE Spec2Model ----
(***************************************************************************)
(* Model of listener.py (Simple Push Listener): the POST /receive_push     *)
(* handler handle_push, the GET / handler root, and the __main__ startup.  *)
(*                                                                         *)
(* A request body is a sequence of lexical tokens.  "BAD" stands for a     *)
(* byte that no text codec accepts, "x" for a character that begins no     *)
(* JSON value, "s" for a complete JSON string (a scalar, or an object      *)
(* key).  json.loads and json.dumps are modelled by what CPython's json    *)
(* package does on such a body.                                            *)
(***************************************************************************)
EXTENDS Integers, Sequences, FiniteSets, TLC

(* ------------------------------ bounds -------------------------------- *)

\* Longest request body, in tokens.
MaxBodyLen == 4

\* Container nesting the JSON scanner accepts before the interpreter's
\* recursion limit stops it (about 1000 in CPython; scaled down here).
RecursionLimit == 1

\* Requests handled by one run of the concurrent specifications.
MaxRequests == 2

(* ------------------------- json.loads (line 33) ------------------------ *)

Tokens == {"[", "]", "{", "}", ":", ",", "s", "x", "BAD"}

RECURSIVE SeqsUpTo(_, _)
SeqsUpTo(S, n) ==
    IF n = 0 THEN {<<>>}
    ELSE LET shorter == SeqsUpTo(S, n - 1)
         IN  shorter \cup {Append(b, t) : b \in {c \in shorter : Len(c) = n - 1}, t \in S}

\* Every body of at most MaxBodyLen tokens.
Bodies == SeqsUpTo(Tokens, MaxBodyLen)

\* The token at index i, "" past the end (Python's s[i:i+1]).
At(s, i) == IF i >= 1 /\ i <= Len(s) THEN s[i] ELSE ""

StrVal == [t |-> "str", v |-> <<>>]
ArrVal(items) == [t |-> "arr", v |-> items]
ObjVal(pairs) == [t |-> "obj", v |-> pairs]

\* A scan result: err is "none", "StopIteration", "JSONDecodeError" or
\* "RecursionError"; end is the index after the value.
Scanned(val, end) == [err |-> "none", val |-> val, end |-> end]
ScanError(kind, end) == [err |-> kind, val |-> StrVal, end |-> end]

\* dict(pairs): a repeated key keeps its first position and its last value.
DictOf(pairs) ==
    IF pairs = <<>> THEN <<>> ELSE <<[k |-> "s", val |-> pairs[Len(pairs)].val]>>

RECURSIVE scan_once(_, _, _)
RECURSIVE JSONArrayItems(_, _, _, _)
RECURSIVE JSONObjectPairs(_, _, _, _)

\* JSONArray after "[": `end` is the index of the next token.
JSONArray(s, end, depth) ==
    IF At(s, end) = "]" THEN Scanned(ArrVal(<<>>), end + 1)
    ELSE JSONArrayItems(s, end, depth, <<>>)

JSONArrayItems(s, end, depth, values) ==
    LET r == scan_once(s, end, depth)
    IN  IF r.err = "StopIteration" THEN ScanError("JSONDecodeError", r.end)
        ELSE IF r.err # "none" THEN r
        ELSE LET vs == Append(values, r.val)
                 nextchar == At(s, r.end)
             IN  IF nextchar = "]" THEN Scanned(ArrVal(vs), r.end + 1)
                 ELSE IF nextchar # "," THEN ScanError("JSONDecodeError", r.end)
                 ELSE JSONArrayItems(s, r.end + 1, depth, vs)

\* JSONObject after "{": `end` is the index of the next token.
JSONObject(s, end, depth) ==
    IF At(s, end) = "}" THEN Scanned(ObjVal(<<>>), end + 1)
    ELSE IF At(s, end) # "s" THEN ScanError("JSONDecodeError", end)
    ELSE JSONObjectPairs(s, end, depth, <<>>)

\* One "key : value" pair starting at the key, then "," or "}".
JSONObjectPairs(s, end, depth, pairs) ==
    IF At(s, end + 1) # ":" THEN ScanError("JSONDecodeError", end + 1)
    ELSE LET r == scan_once(s, end + 2, depth)
         IN  IF r.err = "StopIteration" THEN ScanError("JSONDecodeError", r.end)
             ELSE IF r.err # "none" THEN r
             ELSE LET ps == Append(pairs, [k |-> "s", val |-> r.val])
                      nextchar == At(s, r.end)
                  IN  IF nextchar = "}" THEN Scanned(ObjVal(DictOf(ps)), r.end + 1)
                      ELSE IF nextchar # "," THEN ScanError("JSONDecodeError", r.end)
                      ELSE IF At(s, r.end + 1) # "s"
                           THEN ScanError("JSONDecodeError", r.end + 1)
                      ELSE JSONObjectPairs(s, r.end + 1, depth, ps)

\* scan_once at index idx, inside `depth` containers.  Entering one more
\* container than the recursion limit allows raises RecursionError.
scan_once(s, idx, depth) ==
    LET nextchar == At(s, idx)
    IN  IF nextchar = "s" THEN Scanned(StrVal, idx + 1)
        ELSE IF nextchar \in {"[", "{"} THEN
            IF depth + 1 > RecursionLimit THEN ScanError("RecursionError", idx)
            ELSE IF nextchar = "[" THEN JSONArray(s, idx + 1, depth + 1)
            ELSE JSONObject(s, idx + 1, depth + 1)
        ELSE ScanError("StopIteration", idx)

\* bytes.decode: a body holding an undecodable byte anywhere does not decode.
Decodable(body) == \A i \in 1..Len(body) : body[i] # "BAD"

NoException == [type |-> "none", msg |-> "none"]
Exception(type, msg) == [type |-> type, msg |-> msg]

\* json.loads(body): decode, scan one value, reject trailing data.
\* The result is [exc, val]; exc.type = "none" when a value was parsed.
Loaded(val) == [exc |-> NoException, val |-> val]
LoadFailed(type, msg) == [exc |-> Exception(type, msg), val |-> StrVal]

json_loads(body) ==
    IF ~Decodable(body)
    THEN LoadFailed("UnicodeDecodeError", "codec can't decode byte")
    ELSE LET r == scan_once(body, 1, 0)
         IN  IF r.err = "RecursionError"
             THEN LoadFailed("RecursionError", "maximum recursion depth exceeded")
             ELSE IF r.err = "StopIteration"
             THEN LoadFailed("JSONDecodeError", "Expecting value")
             ELSE IF r.err = "JSONDecodeError"
             THEN LoadFailed("JSONDecodeError", "Expecting value or delimiter")
             ELSE IF r.end # Len(body) + 1
             THEN LoadFailed("JSONDecodeError", "Extra data")
             ELSE Loaded(r.val)

(* ------------------------ json.dumps (line 39) ------------------------- *)

Line(ind, txt) == [ind |-> ind, txt |-> txt]

\* `lines` with `suffix` added to the text of the last line.
WithSuffix(lines, suffix) ==
    [lines EXCEPT ![Len(lines)].txt = lines[Len(lines)].txt \o suffix]

\* `lines` with `prefix` put before the text of the first line.
WithPrefix(lines, prefix) ==
    [lines EXCEPT ![1].txt = prefix \o lines[1].txt]

RECURSIVE json_dumps_at(_, _)
RECURSIVE DumpItems(_, _, _)

\* The items of a container, one per line group, "," after all but the last.
DumpItems(items, isObj, ind) ==
    IF items = <<>> THEN <<>>
    ELSE LET x == items[1]
             ls == IF isObj
                   THEN WithPrefix(json_dumps_at(x.val, ind), <<"s", ": ">>)
                   ELSE json_dumps_at(x, ind)
             first == IF Len(items) > 1 THEN WithSuffix(ls, <<",">>) ELSE ls
         IN  first \o DumpItems(Tail(items), isObj, ind)

\* json.dumps(value, indent=2) as indented lines; ind is the indent level
\* of the value's first line.
json_dumps_at(val, ind) ==
    IF val.t = "str" THEN <<Line(ind, <<"s">>)>>
    ELSE LET open == IF val.t = "arr" THEN "[" ELSE "{"
             close == IF val.t = "arr" THEN "]" ELSE "}"
         IN  IF val.v = <<>> THEN <<Line(ind, <<open, close>>)>>
             ELSE <<Line(ind, <<open>>)>>
                  \o DumpItems(val.v, val.t = "obj", ind + 1)
                  \o <<Line(ind, <<close>>)>>

json_dumps(val) == json_dumps_at(val, 0)

(* ------------------------------- state -------------------------------- *)

VARIABLES
    process,    \* the listener process: startup position, bind result, exit status
    requests,   \* every handler invocation so far, in order of arrival
    running,    \* the invocation the event loop is executing (0: none)
    stdout,     \* lines written with print()
    log         \* records emitted through `logger`

vars == <<process, requests, running, stdout, log>>

\* request.client is None when the server passes no client information.
NoClient == "None"
Addresses == {"203.0.113.5", "198.51.100.7"}
Clients == Addresses \cup {NoClient}

\* A Content-Type header value is a sequence of pieces; NoHeader is a
\* request without the header.
NoHeader == <<"absent">>
ContentTypes ==
    { NoHeader,
      <<"application/json">>,
      <<"Application/JSON">>,
      <<"application/json", "; charset=utf-8">>,
      <<"text/plain">> }

\* str.lower() on one piece of a header value.
LowerPiece(p) ==
    IF p \in {"Application/JSON", "APPLICATION/JSON"} THEN "application/json" ELSE p

\* Line 26 without .lower(): the header value as sent.
content_type_as_sent(header) ==
    IF header = NoHeader THEN <<>> ELSE header

\* request.headers.get("content-type", "").lower()          (line 26)
content_type_of(header) ==
    IF header = NoHeader THEN <<>>
    ELSE [i \in 1..Len(header) |-> LowerPiece(header[i])]

\* "application/json" not in content_type                   (line 27)
UnexpectedContentType(content_type) ==
    ~ \E i \in 1..Len(content_type) : content_type[i] = "application/json"

(* ------------------------------ responses ------------------------------ *)

\* Lines 43-50 reporting the address the listener is bound to.
SuccessResponseOfListener(source_ip) ==
    [ status |-> 200,
      body   |-> [ status    |-> "success",
                   message   |-> "Received and logged payload.",
                   source_ip |-> process.listen_host ],
      by     |-> "handle_push" ]

\* Lines 43-50 answering 409 to a payload already dumped for an earlier request.
SuccessResponseDeduplicated(source_ip) ==
    [ status |-> IF \E i, j \in 1..Len(stdout) :
                      /\ i < j
                      /\ stdout[i].kind = "payload" /\ stdout[j].kind = "payload"
                      /\ stdout[i].text = stdout[j].text
                 THEN 409 ELSE 200,
      body   |-> [ status    |-> "success",
                   message   |-> "Received and logged payload.",
                   source_ip |-> source_ip ],
      by     |-> "handle_push" ]

\* JSONResponse(content={...}, status_code=200)            (lines 43-50)
SuccessResponse(source_ip) ==
    [ status |-> 200,
      body   |-> [ status    |-> "success",
                   message   |-> "Received and logged payload.",
                   source_ip |-> source_ip ],
      by     |-> "handle_push" ]

\* What FastAPI sends for HTTPException(status_code, detail).
HTTPException(status_code, detail) ==
    [ status |-> status_code, body |-> [detail |-> detail], by |-> "handle_push" ]

\* The except clauses with `except ValueError` in place of
\* `except json.JSONDecodeError`: a UnicodeDecodeError is answered 400 too.
ExceptionResponseValueError(exc) ==
    IF exc.type \in {"JSONDecodeError", "UnicodeDecodeError"}
    THEN HTTPException(400, <<"Invalid JSON payload received.">>)
    ELSE HTTPException(500, <<"Internal server error: ", exc.msg>>)

\* The except clauses of handle_push: the exception -> the HTTPException.
ExceptionResponse(exc) ==
    IF exc.type = "JSONDecodeError"
    THEN HTTPException(400, <<"Invalid JSON payload received.">>)
    ELSE HTTPException(500, <<"Internal server error: ", exc.msg>>)

\* The error record each except clause logs before raising.
ExceptionLog(exc) ==
    IF exc.type = "JSONDecodeError"
    THEN <<"Failed to decode JSON from request body.">>
    ELSE <<"An unexpected error occurred while processing request: ", exc.msg>>

\* An exception that leaves handle_push is answered by the server's own
\* error middleware, not by the handler.
ServerErrorResponse ==
    [ status |-> 500, body |-> [text |-> "Internal Server Error"], by |-> "server" ]

\* root() answering 503 while a POST is suspended in its await.
RootResponseWhenIdle ==
    [ status |-> IF \E i \in 1..Len(requests) : requests[i].pc = "await_json"
                 THEN 503 ELSE 200,
      body   |-> [message |-> "Simple Push Listener is alive. Send POST requests with JSON data to /receive_push"],
      by     |-> "root" ]

\* The return value of root(), sent as 200.                    (line 66)
RootResponse ==
    [ status |-> 200,
      body   |-> [message |-> "Simple Push Listener is alive. Send POST requests with JSON data to /receive_push"],
      by     |-> "root" ]

(* ------------------------------ requests ------------------------------ *)

POST == "POST /receive_push"
GET == "GET /"

Queries == {"", "?verbose=1"}

\* A handler invocation.  pc is the line handle_push is at, "await_json"
\* while it is suspended in `await request.json()`, "done" once the request
\* is answered.  parses counts the calls of json.loads; responses are the
\* responses sent for the request.
NewRequest(route, client, header, query, body) ==
    [ route     |-> route,
      client    |-> client,
      header    |-> header,
      query     |-> query,
      body      |-> body,
      pc        |-> "start",
      source_ip |-> "unset",
      payload   |-> StrVal,
      exc       |-> NoException,
      parses    |-> 0,
      responses |-> <<>> ]

\* The request is answered: the handler invocation is over.
Finished(req, resp) ==
    [req EXCEPT !.pc = "done", !.responses = Append(@, resp)]

\* A JSON parse failure sending the handler back to read the body again.
RaisedWithRetry(req, exc) ==
    IF exc.type = "JSONDecodeError"
    THEN [req EXCEPT !.pc = "await_json"]
    ELSE [req EXCEPT !.pc = "except", !.exc = exc]

\* An exception raised inside the try block reaches the except clauses.
Raised(req, exc) ==
    [req EXCEPT !.pc = "except", !.exc = exc]

LogRecord(r, level, msg) == [rid |-> r, level |-> level, msg |-> msg]
Printed(r, kind, text) == [rid |-> r, kind |-> kind, text |-> text]

\* print("\n... --- Payload Received --- ...")                 (line 38)
HeaderText == <<Line(0, <<"">>), Line(0, <<"--- Payload Received ---">>)>>
\* print("----------------------------\n")                     (line 40)
FooterText == <<Line(0, <<"----------------------------">>), Line(0, <<"">>)>>

\* What the print at line `pc` writes for the request.
PrintText(req) ==
    IF req.pc = "print_header" THEN HeaderText
    ELSE IF req.pc = "print_payload" THEN json_dumps(req.payload)
    ELSE FooterText

PrintKind(pc) ==
    IF pc = "print_header" THEN "header"
    ELSE IF pc = "print_payload" THEN "payload"
    ELSE "footer"

\* Line 40 left out: the success response follows the payload line.
AfterPrintWithoutFooter(pc) ==
    IF pc = "print_header" THEN "print_payload" ELSE "return"

\* The line after the print at line `pc`.
AfterPrint(pc) ==
    IF pc = "print_header" THEN "print_payload"
    ELSE IF pc = "print_payload" THEN "print_footer"
    ELSE "return"

Serving == process.pc = "serving"

(* ---------------------- handle_push (lines 16-60) ---------------------- *)

\* handle_push is a coroutine on uvicorn's single event loop: between two
\* awaits it runs alone.  Its only await is `await request.json()`, so the
\* lines up to it are one step, and from its resumption to the response the
\* invocation holds the loop (`running`), one step per statement.

\* Lines 21-33, up to the suspension in `await request.json()`: record the
\* client address, log the request, inspect Content-Type.  request.client is
\* None without client information, and `.host` then raises AttributeError
\* outside the try block: the exception leaves the handler.
ReceivePush(Inputs, n) ==
    /\ Serving
    /\ running = 0
    /\ Len(requests) < n
    /\ \E input \in Inputs :
         LET client == input[1]
             header == input[2]
             body == input[3]
             r == Len(requests) + 1
             req == NewRequest(POST, client, header, "", body)
             content_type == content_type_of(header)
         IN  IF client = NoClient
             THEN /\ requests' = Append(requests,
                        Finished([req EXCEPT !.exc = Exception("AttributeError",
                                     "'NoneType' object has no attribute 'host'")],
                                 ServerErrorResponse))
                  /\ log' = log
             ELSE /\ requests' = Append(requests,
                        [req EXCEPT !.pc = "await_json", !.source_ip = client])
                  /\ log' = log
                       \o <<LogRecord(r, "INFO", <<"Received POST request on /receive_push from ", client>>)>>
                       \o (IF UnexpectedContentType(content_type)
                           THEN <<LogRecord(r, "WARNING",
                                    <<"Received request with unexpected Content-Type: ">> \o content_type)>>
                           ELSE <<>>)
    /\ UNCHANGED <<process, running, stdout>>

\* Line 33 resumed, and line 35: the body has been read (or the client went
\* away while it was read) and json.loads runs on it.
ParseJson(r) ==
    /\ Serving
    /\ running = 0
    /\ r \in 1..Len(requests)
    /\ requests[r].pc = "await_json"
    /\ \E disconnected \in BOOLEAN :
         LET req == requests[r]
             res == json_loads(req.body)
         IN  IF disconnected
             THEN /\ requests' = [requests EXCEPT ![r] =
                        Raised(req, Exception("ClientDisconnect", ""))]
                  /\ log' = log
             ELSE IF res.exc.type # "none"
             THEN /\ requests' = [requests EXCEPT ![r] =
                        Raised([req EXCEPT !.parses = @ + 1], res.exc)]
                  /\ log' = log
             ELSE /\ requests' = [requests EXCEPT ![r] =
                        [req EXCEPT !.parses = @ + 1, !.payload = res.val,
                                    !.pc = "print_header"]]
                  /\ log' = Append(log, LogRecord(r, "INFO", <<"Successfully parsed JSON payload.">>))
    /\ running' = r
    /\ UNCHANGED <<process, stdout>>

\* Lines 38, 39 and 40: one print each.  A print raises when standard output
\* cannot take the text (closed pipe, full disk, an encoding without the
\* header's characters), and line 39 also when json.dumps raises.
PrintStep(r) ==
    /\ running = r
    /\ requests[r].pc \in {"print_header", "print_payload", "print_footer"}
    /\ \E ok \in BOOLEAN :
         LET req == requests[r]
         IN  IF ok
             THEN /\ stdout' = Append(stdout, Printed(r, PrintKind(req.pc), PrintText(req)))
                  /\ requests' = [requests EXCEPT ![r].pc = AfterPrint(req.pc)]
             ELSE /\ stdout' = stdout
                  /\ requests' = [requests EXCEPT ![r] =
                        Raised(req, Exception("OSError", "write failed"))]
    /\ UNCHANGED <<process, running, log>>

\* Lines 43-50: return the success response.
ReturnSuccess(r) ==
    /\ running = r
    /\ requests[r].pc = "return"
    /\ requests' = [requests EXCEPT ![r] = Finished(@, SuccessResponse(@.source_ip))]
    /\ running' = 0
    /\ UNCHANGED <<process, stdout, log>>

\* Lines 52-53 and 58-59: the matching except clause logs the failure.
LogFailure(r) ==
    /\ running = r
    /\ requests[r].pc = "except"
    /\ log' = Append(log, LogRecord(r, "ERROR", ExceptionLog(requests[r].exc)))
    /\ requests' = [requests EXCEPT ![r].pc = "raise"]
    /\ UNCHANGED <<process, running, stdout>>

\* Lines 57 and 60: raise the HTTPException, which FastAPI sends.
RaiseHTTPException(r) ==
    /\ running = r
    /\ requests[r].pc = "raise"
    /\ requests' = [requests EXCEPT ![r] = Finished(@, ExceptionResponse(@.exc))]
    /\ running' = 0
    /\ UNCHANGED <<process, stdout, log>>

(* -------------------------- root (lines 62-66) ------------------------- *)

root(Inputs, n) ==
    /\ Serving
    /\ running = 0
    /\ Len(requests) < n
    /\ \E input \in Inputs :
         LET client == input[1]
             header == input[2]
             query == input[3]
             r == Len(requests) + 1
         IN  /\ requests' = Append(requests,
                   Finished(NewRequest(GET, client, header, query, <<>>), RootResponse))
             /\ log' = Append(log, LogRecord(r, "INFO", <<"Received GET request on /">>))
    /\ UNCHANGED <<process, running, stdout>>

(* ------------------------ __main__ (lines 68-84) ----------------------- *)

DefaultPort == 9999
DefaultHost == "0.0.0.0"

\* The environment and the host's sockets when the process starts.
Unset == "unset"
PortSettings == {Unset, "0", "8080", "9999", "abc"}
HostSettings == {Unset, "127.0.0.1", "no.such.host"}
EphemeralPorts == {49152}
PortsInUse == SUBSET ({8080, 9999} \cup EphemeralPorts)

\* int(os.getenv("LISTENER_PORT", 9999)): -1 stands for ValueError. (line 70)
listen_port_of(setting) ==
    IF setting = Unset THEN DefaultPort
    ELSE IF setting = "0" THEN 0
    ELSE IF setting = "8080" THEN 8080
    ELSE IF setting = "9999" THEN 9999
    ELSE -1

\* os.getenv("LISTENER_HOST", "0.0.0.0")                        (line 73)
listen_host_of(setting) == IF setting = Unset THEN DefaultHost ELSE setting

\* The port the socket is bound to by uvicorn.run(app, host, port), -1 when
\* the bind fails.  Port 0 asks the system for any free port.
BoundPort(host, port, in_use) ==
    IF host = "no.such.host" THEN -1
    ELSE IF port = 0
         THEN (IF EphemeralPorts \subseteq in_use THEN -1
               ELSE CHOOSE p \in EphemeralPorts : p \notin in_use)
    ELSE IF port \in in_use THEN -1
    ELSE port

\* The records logged between the two separator lines.     (lines 76-80)
BannerLog(host, port) ==
    << LogRecord(0, "INFO", <<"Starting Simple Push Listener...">>),
       LogRecord(0, "INFO", <<"Listening on: http://", host, ":", ToString(port)>>),
       LogRecord(0, "INFO", <<"Send POST requests to: http://<listener_ip>:", ToString(port), "/receive_push">>),
       LogRecord(0, "INFO", <<"   (Use localhost or 127.0.0.1 if running agent on the same machine)">>),
       LogRecord(0, "INFO", <<"   (Use machine's local IP if agent is on another machine/container)">>) >>

\* print("-------------------------------------------")   (lines 75, 81)
BannerRule == Printed(0, "banner", <<Line(0, <<"-------------------------------------------">>)>>)

Started(port_setting, host_setting, in_use) ==
    [ pc           |-> "getenv",
      port_setting |-> port_setting,
      host_setting |-> host_setting,
      in_use       |-> in_use,
      listen_port  |-> -1,
      listen_host  |-> "unset",
      bound        |-> -1,
      exit         |-> -1 ]

Exited(proc, status) == [proc EXCEPT !.pc = "exited", !.bound = -1, !.exit = status]

InitStartup ==
    /\ \E p \in PortSettings, h \in HostSettings, u \in PortsInUse :
         process = Started(p, h, u)
    /\ requests = <<>>
    /\ running = 0
    /\ stdout = <<>>
    /\ log = <<>>

\* Lines 70 and 73.  int() of a value that is no integer raises ValueError,
\* which ends the process with status 1.
ReadEnvironment ==
    /\ process.pc = "getenv"
    /\ LET port == listen_port_of(process.port_setting)
       IN  process' = IF port = -1 THEN Exited(process, 1)
                      ELSE [process EXCEPT !.pc = "banner",
                                           !.listen_port = port,
                                           !.listen_host = listen_host_of(process.host_setting)]
    /\ UNCHANGED <<requests, running, stdout, log>>

\* Lines 75-81.
Banner ==
    /\ process.pc = "banner"
    /\ stdout' = stdout \o <<BannerRule, BannerRule>>
    /\ log' = log \o BannerLog(process.listen_host, process.listen_port)
    /\ process' = [process EXCEPT !.pc = "run"]
    /\ UNCHANGED <<requests, running>>

\* Line 84: uvicorn.run binds once; a failed bind ends the process with
\* status 1, a successful one starts serving.
Run ==
    /\ process.pc = "run"
    /\ LET port == BoundPort(process.listen_host, process.listen_port, process.in_use)
       IN  process' = IF port = -1 THEN Exited(process, 1)
                      ELSE [process EXCEPT !.pc = "serving", !.bound = port]
    /\ UNCHANGED <<requests, running, stdout, log>>

\* An interrupt signal while serving: uvicorn shuts down, status 0.
Interrupt ==
    /\ process.pc = "serving"
    /\ process' = Exited(process, 0)
    /\ UNCHANGED <<requests, running, stdout, log>>

NextStartup ==
    \/ ReadEnvironment
    \/ Banner
    \/ Run
    \/ Interrupt

SpecStartup == InitStartup /\ [][NextStartup]_vars

(* --------------------------- specifications ---------------------------- *)

\* The listener started with no setting and both ports free, now serving.
ServingProcess ==
    [Started(Unset, Unset, {}) EXCEPT !.pc = "serving",
                                      !.listen_port = DefaultPort,
                                      !.listen_host = DefaultHost,
                                      !.bound = DefaultPort]

InitServing ==
    /\ process = ServingProcess
    /\ requests = <<>>
    /\ running = 0
    /\ stdout = <<BannerRule, BannerRule>>
    /\ log = BannerLog(DefaultHost, DefaultPort)

Handle(r) ==
    \/ ParseJson(r)
    \/ PrintStep(r)
    \/ ReturnSuccess(r)
    \/ LogFailure(r)
    \/ RaiseHTTPException(r)

\* One POST /receive_push, over every body and every client.
NextOne ==
    \/ ReceivePush(Clients \X {<<"application/json">>, <<"text/plain">>} \X Bodies, 1)
    \/ \E r \in 1..1 : Handle(r)

SpecOne == InitServing /\ [][NextOne]_vars

\* The POSTs of the concurrent specification: from one client a scalar, an
\* array nested inside another, and an empty body; from another, a scalar.
PushInputs ==
    {"203.0.113.5"} \X {<<"application/json">>} \X {<<"s">>, <<"[", "[", "]", "]">>, <<>>}
    \cup {<<"198.51.100.7", <<"application/json">>, <<"s">>>>}

\* Its GETs: with and without a query and a Content-Type header.
RootInputs == {"203.0.113.5"} \X {NoHeader, <<"text/plain">>} \X Queries

\* Up to MaxRequests requests, POST and GET, their handlers interleaved at
\* every await.
Next ==
    \/ ReceivePush(PushInputs, MaxRequests)
    \/ root(RootInputs, MaxRequests)
    \/ \E r \in 1..MaxRequests : Handle(r)

Spec == InitServing /\ [][Next]_vars

\* The requests of the Content-Type specification: a scalar under every
\* Content-Type, and an array nested inside another as application/json.
HeaderInputs ==
    {"203.0.113.5"} \X ContentTypes \X {<<"s">>}
    \cup {<<"203.0.113.5", <<"application/json">>, <<"[", "[", "]", "]">>>>}

\* Up to MaxRequests POSTs from one client.
NextHeaders ==
    \/ ReceivePush(HeaderInputs, MaxRequests)
    \/ \E r \in 1..MaxRequests : Handle(r)

SpecHeaders == InitServing /\ [][NextHeaders]_vars

(* ------------------------- the JSON grammar ---------------------------- *)

\* RFC 8259 over the tokens of a body, independent of the scanner above:
\*   value = "s" | "[" "]" | "[" value ("," value)* "]"
\*         | "{" "}" | "{" "s" ":" value ("," "s" ":" value)* "}"

Short(S) == {b \in S : Len(b) <= MaxBodyLen}

RECURSIVE CommaLists(_, _)
\* The lists e1 "," e2 "," ... of one to n elements of E.
CommaLists(E, n) ==
    IF n <= 1 THEN Short(E)
    ELSE LET shorter == CommaLists(E, n - 1)
         IN  shorter \cup Short({l \o <<",">> \o e : l \in shorter, e \in E})

RECURSIVE JsonValues(_)
\* The values whose containers nest at most k deep.
JsonValues(k) ==
    IF k = 0 THEN {<<"s">>}
    ELSE LET inner == JsonValues(k - 1)
             members == {<<"s", ":">> \o v : v \in inner}
         IN  inner
             \cup {<<"[", "]">>, <<"{", "}">>}
             \cup Short({<<"[">> \o l \o <<"]">> : l \in CommaLists(inner, MaxBodyLen)})
             \cup Short({<<"{">> \o l \o <<"}">> : l \in CommaLists(members, MaxBodyLen)})

\* Every syntactically valid JSON text of at most MaxBodyLen tokens.
JsonTexts == JsonValues(MaxBodyLen)

IsJsonText(body) == body \in JsonTexts

(* --------------------------- claim vocabulary -------------------------- *)

Arrived == 1..Len(requests)
IsPost(r) == requests[r].route = POST
IsGet(r) == requests[r].route = GET
Answered(r) == requests[r].pc = "done"
Response(r) == requests[r].responses[1]
Status(r) == Response(r).status

\* The failures the environment injects: the client leaves while the body
\* is read, standard output refuses a line.
Environmental == {"ClientDisconnect", "OSError"}

\* The success body of the specification, for caller address A.
SuccessBody(A) ==
    [status |-> "success", message |-> "Received and logged payload.", source_ip |-> A]

\* The records and the lines of request r.
LogOf(r) == SelectSeq(log, LAMBDA e : e.rid = r)
StdoutOf(r) == SelectSeq(stdout, LAMBDA e : e.rid = r)
Kinds(lines) == [i \in 1..Len(lines) |-> lines[i].kind]
Logged(r, level) == \E i \in 1..Len(log) : log[i].rid = r /\ log[i].level = level

(* -------------------------------- C1 ----------------------------------- *)

\* C1 as stated: every valid JSON body from every caller address is answered
\* 200 with the success body naming that address.  Stated for the requests
\* whose body was read and whose dump was written without an I/O failure.
C1_EveryValidBodyIs200 ==
    \A r \in Arrived :
        (IsPost(r) /\ Answered(r) /\ requests[r].client \in Addresses
            /\ IsJsonText(requests[r].body)
            /\ requests[r].exc.type \notin Environmental)
        => /\ Status(r) = 200
           /\ Response(r).body = SuccessBody(requests[r].client)

\* C1, amended: a valid JSON body from caller address A is answered 200 with
\* the success body naming A, unless reading the body, scanning it past the
\* nesting limit, or writing the dump raised; then the answer is 500 with
\* that exception's message, and it is never 400.
C1_ValidBodyIs200UnlessRaised ==
    \A r \in Arrived :
        (IsPost(r) /\ Answered(r) /\ requests[r].client \in Addresses
            /\ IsJsonText(requests[r].body))
        => LET exc == requests[r].exc
           IN  /\ exc.type \in {"none", "RecursionError"} \cup Environmental
               /\ exc.type = "none"
                    => /\ Status(r) = 200
                       /\ Response(r).body = SuccessBody(requests[r].client)
               /\ exc.type # "none"
                    => /\ Status(r) = 500
                       /\ Response(r).body = [detail |-> <<"Internal server error: ", exc.msg>>]

\* An object sent by the second address is answered 200.
C1_Witness ==
    \E r \in Arrived :
        /\ IsPost(r) /\ Answered(r)
        /\ requests[r].client = "198.51.100.7"
        /\ requests[r].body = <<"{", "}">>
        /\ Status(r) = 200

(* -------------------------------- C2 ----------------------------------- *)

\* C2 as stated: a body that is no JSON text (an empty body and undecodable
\* bytes included), once read and handed to json.loads, is answered 400 with
\* the fixed detail.
C2_EveryInvalidBodyIs400 ==
    \A r \in Arrived :
        (IsPost(r) /\ Answered(r) /\ requests[r].parses > 0
            /\ ~IsJsonText(requests[r].body))
        => /\ Status(r) = 400
           /\ Response(r).body = [detail |-> <<"Invalid JSON payload received.">>]

(* -------------------------------- C9 ----------------------------------- *)

\* C9: a failure inside the try block other than a JSON parse failure is
\* answered 500 with "Internal server error: <message>", the message being
\* the exception's, and the error record is in the log before the response
\* exists; until then the request has no response.
C9_OtherFailureIs500 ==
    \A r \in Arrived :
        LET req == requests[r]
        IN  (IsPost(r) /\ req.source_ip # "unset"
                /\ req.exc.type \notin {"none", "JSONDecodeError"})
            => /\ req.pc \in {"except", "raise", "done"}
               /\ req.pc = "except" => (req.responses = <<>> /\ ~Logged(r, "ERROR"))
               /\ req.pc = "raise" => (req.responses = <<>> /\ Logged(r, "ERROR"))
               /\ req.pc = "done"
                    => /\ req.responses =
                            << [ status |-> 500,
                                 body   |-> [detail |-> <<"Internal server error: ", req.exc.msg>>],
                                 by     |-> "handle_push" ] >>
                       /\ LogOf(r)[Len(LogOf(r))] =
                            [ rid |-> r, level |-> "ERROR",
                              msg |-> <<"An unexpected error occurred while processing request: ",
                                        req.exc.msg>> ]

\* The payload line of the dump could not be written, after the header was:
\* the request is answered 500.
C9_Witness ==
    \E r \in Arrived :
        /\ IsPost(r) /\ Answered(r)
        /\ requests[r].exc.type = "OSError"
        /\ Kinds(StdoutOf(r)) = <<"header">>
        /\ Status(r) = 500

(* -------------------------------- C3 ----------------------------------- *)

\* C3 as stated: every answer to POST /receive_push is the handler's own
\* (its return value or the HTTPException it raises); no exception leaves
\* handle_push, also when the request carries no client information.
C3_NoExceptionLeavesHandler ==
    \A r \in Arrived :
        (IsPost(r) /\ Answered(r))
        => /\ Response(r).by = "handle_push"
           /\ Status(r) \in {200, 400, 500}

(* -------------------------------- C4 ----------------------------------- *)

\* The outcome the path taken by a POST leads to.
PathStatus(r) ==
    IF requests[r].exc.type = "none" THEN 200
    ELSE IF requests[r].exc.type = "JSONDecodeError" THEN 400
    ELSE 500

\* C4: a request has no response until its handler is over and exactly one
\* from then on, 200, 400 or 500 as the path taken says; json.loads runs at
\* most once per request and a request is never back in its await after it
\* ran; and a handler that is not over can always take a step, so no path
\* ends without a response.
C4_ExactlyOneResponse ==
    /\ \A r \in Arrived :
         LET req == requests[r]
         IN  /\ Len(req.responses) = (IF req.pc = "done" THEN 1 ELSE 0)
             /\ req.parses <= 1
             /\ req.pc = "await_json" => req.parses = 0
             /\ Answered(r) /\ IsGet(r) => Status(r) = 200
             /\ Answered(r) /\ IsPost(r) => Status(r) = PathStatus(r)
    /\ running # 0 => ENABLED Handle(running)
    /\ running = 0 => \A r \in Arrived : ~Answered(r) => ENABLED ParseJson(r)

\* A POST answered 200, 400 or 500 next to an answered GET.
C4_Witness ==
    /\ Len(requests) = 2
    /\ IsPost(1) /\ Answered(1) /\ Status(1) = 400 /\ requests[1].parses = 1
    /\ IsGet(2) /\ Answered(2)

(* -------------------------------- C5 ----------------------------------- *)

\* A header value that names application/json in any letter case.
MentionsJson(header) ==
    /\ header # NoHeader
    /\ \E i \in 1..Len(header) :
         header[i] \in {"application/json", "Application/JSON", "APPLICATION/JSON"}

\* C5 as stated: a valid JSON body is answered 200 under every Content-Type
\* header.  Stated for the requests whose body was read and whose dump was
\* written without an I/O failure.
C5_ValidBodyIs200UnderEveryHeader ==
    \A r \in Arrived :
        (IsPost(r) /\ Answered(r) /\ IsJsonText(requests[r].body)
            /\ requests[r].exc.type \notin Environmental)
        => Status(r) = 200

\* C5, amended: the header is advisory.  A warning is logged exactly for a
\* header that is missing or does not name application/json in any letter
\* case; two POSTs of the same body from the same client that met no I/O
\* failure get the same status and body whatever their headers; and a valid
\* body is answered 200 unless a step raised, and then 500, under any header.
C5_ContentTypeIsAdvisory ==
    /\ \A r \in Arrived :
         IsPost(r) /\ requests[r].source_ip # "unset"
         => (Logged(r, "WARNING") <=> ~MentionsJson(requests[r].header))
    /\ \A r1, r2 \in Arrived :
         (/\ IsPost(r1) /\ IsPost(r2) /\ Answered(r1) /\ Answered(r2)
          /\ requests[r1].client = requests[r2].client
          /\ requests[r1].body = requests[r2].body
          /\ requests[r1].exc.type \notin Environmental
          /\ requests[r2].exc.type \notin Environmental)
         => Response(r1) = Response(r2)
    /\ \A r \in Arrived :
         (IsPost(r) /\ Answered(r) /\ IsJsonText(requests[r].body))
         => Status(r) = (IF requests[r].exc.type = "none" THEN 200 ELSE 500)

\* The same scalar sent as text/plain (warned about) and as Application/JSON
\* (not warned about), both answered 200.
C5_Witness ==
    \E r1, r2 \in Arrived :
        /\ requests[r1].header = <<"text/plain">> /\ requests[r2].header = <<"Application/JSON">>
        /\ requests[r1].body = <<"s">> /\ requests[r2].body = <<"s">>
        /\ Answered(r1) /\ Answered(r2)
        /\ Status(r1) = 200 /\ Status(r2) = 200
        /\ Logged(r1, "WARNING") /\ ~Logged(r2, "WARNING")

(* -------------------------------- C6 ----------------------------------- *)

\* C6 as stated: once uvicorn.run has tried to bind, a process started with
\* LISTENER_PORT=0 or with a port that is already bound has exited with a
\* nonzero status and holds no socket.
C6_PortZeroOrBoundPortFailsToStart ==
    (/\ process.pc \in {"serving", "exited"}
     /\ process.listen_port # -1
     /\ \/ process.port_setting = "0"
        \/ process.listen_port \in process.in_use)
    => /\ process.pc = "exited"
       /\ process.exit > 0
       /\ process.bound = -1

(* -------------------------------- C7 ----------------------------------- *)

C8_RootIsAlwaysAlive ==
    \A r \in Arrived :
        IsGet(r)
        => requests[r].responses =
             << [ status |-> 200,
                  body   |-> [message |-> "Simple Push Listener is alive. Send POST requests with JSON data to /receive_push"],
                  by     |-> "root" ] >>

\* A GET with a query and an odd Content-Type, answered while an earlier
\* POST is suspended in its await.
C8_Witness ==
    /\ Len(requests) = 2
    /\ IsPost(1) /\ requests[1].pc = "await_json"
    /\ IsGet(2) /\ Answered(2)
    /\ requests[2].query = "?verbose=1" /\ requests[2].header = <<"text/plain">>
    /\ Status(2) = 200

(* -------------------------------- C10 ---------------------------------- *)

\* C10: the lines a request has written are a prefix of header, payload,
\* footer; a 200 exists only with all three written, the payload line being
\* the indented dump; a request answered 400 has written none; and an
\* answered request with a header and no footer was answered 500.
C10_DumpPrecedesSuccess ==
    \A r \in Arrived :
        LET req == requests[r]
            kinds == Kinds(StdoutOf(r))
        IN  IsPost(r)
            => /\ kinds \in {<<>>, <<"header">>, <<"header", "payload">>,
                             <<"header", "payload", "footer">>}
               /\ (req.responses # <<>> /\ Status(r) = 200)
                    => /\ kinds = <<"header", "payload", "footer">>
                       /\ StdoutOf(r)[2].text # <<>>
                       /\ StdoutOf(r)[2].text[1].ind = 0
               /\ (req.responses # <<>> /\ Status(r) = 400) => kinds = <<>>
               /\ (Answered(r) /\ kinds \in {<<"header">>, <<"header", "payload">>})
                    => Status(r) = 500

\* The array [s] answered 200 after its three-line dump, between header and
\* footer, reached standard output.
C10_Witness ==
    \E r \in Arrived :
        /\ IsPost(r) /\ Answered(r) /\ Status(r) = 200
        /\ requests[r].body = <<"[", "s", "]">>
        /\ Kinds(StdoutOf(r)) = <<"header", "payload", "footer">>
        /\ StdoutOf(r)[2].text = <<Line(0, <<"[">>), Line(1, <<"s">>), Line(0, <<"]">>)>>

====
